---- MODULE Spec2Model ----
(***************************************************************************)
(* Model of md2ipynb.py: markdown_to_notebook, the line-by-line segmenter  *)
(* that turns the lines of a Markdown file into notebook cells, and the    *)
(* reading and writing of the files around it.                             *)
(*                                                                         *)
(* A line is a sequence of characters, as f.readlines() yields it:         *)
(* non-empty, with at most one newline, which is then its last             *)
(* character, and only the last line of a file may lack it.                *)
(***************************************************************************)
EXTENDS Integers, Sequences, FiniteSets, TLC

VARIABLES lines, i, pc, cells, current_cell_lines, in_code_block,
          is_python_block, warned, printed, output_file, result

vars == <<lines, i, pc, cells, current_cell_lines, in_code_block,
          is_python_block, warned, printed, output_file, result>>

\* What the conversion driver prints, writes and returns.
driver == <<printed, output_file, result>>

\* Longest input file, in lines.
MaxLines == 4

-----------------------------------------------------------------------------
(* Characters and the lines the inputs are drawn from                      *)

NL == "\n"
\* The backtick character.
Tick == "backtick"

ProseLine == <<"a", NL>>
BlankLine == <<NL>>
PythonFence == <<Tick, Tick, Tick, "p", "y", "t", "h", "o", "n", NL>>
PythonFenceUpperWs == <<Tick, Tick, Tick, "P", "y", "T", "h", "O", "N", " ", "\t", NL>>
BareFence == <<Tick, Tick, Tick, NL>>
BareFenceWs == <<Tick, Tick, Tick, " ", NL>>
Python3Fence == <<Tick, Tick, Tick, "p", "y", "t", "h", "o", "n", "3", NL>>

\* Lines that end with a line terminator.
TerminatedLines == {ProseLine, BlankLine, PythonFence, PythonFenceUpperWs,
                    BareFence, BareFenceWs, Python3Fence}

Chop(s) == SubSeq(s, 1, Len(s) - 1)

\* The last line of a file may lack its terminator (it is never empty).
UnterminatedLines == {Chop(l) : l \in TerminatedLines \ {BlankLine}}

RECURSIVE FilesOfLen(_)
FilesOfLen(n) ==
    IF n = 0 THEN {<<>>}
    ELSE IF n = 1 THEN {<<l>> : l \in TerminatedLines \cup UnterminatedLines}
    ELSE {<<l>> \o f : l \in TerminatedLines, f \in FilesOfLen(n - 1)}

\* What f.readlines() can return, up to MaxLines lines.
readlines == UNION {FilesOfLen(n) : n \in 0..MaxLines}

-----------------------------------------------------------------------------
(* The three regular expressions, matched with re.match                    *)

\* \s of the re module, on the characters of the model.
IsWhitespace(c) == c \in {" ", "\t", "\n", "\r", "\f"}

\* str.lower() on the letters of the model (re.IGNORECASE).
Lower(c) ==
    CASE c = "P" -> "p" [] c = "Y" -> "y" [] c = "T" -> "t"
      [] c = "H" -> "h" [] c = "O" -> "o" [] c = "N" -> "n"
      [] OTHER -> c

PythonToken == <<"p", "y", "t", "h", "o", "n">>

StartsWithFence(line) ==
    /\ Len(line) >= 3
    /\ \A k \in 1..3 : line[k] = Tick

\* ^ three backticks, python, \s*, $ ; with re.IGNORECASE
python_block_start_pattern(line) ==
    /\ StartsWithFence(line)
    /\ Len(line) >= 9
    /\ \A k \in 1..6 : Lower(line[3 + k]) = PythonToken[k]
    /\ \A k \in 10..Len(line) : IsWhitespace(line[k])

\* ^ three backticks, .*, $ : the dot matches no newline, $ matches at the end or before a final newline
any_block_start_pattern(line) ==
    /\ StartsWithFence(line)
    /\ \A k \in 4..Len(line) : line[k] = NL => k = Len(line)

\* ^ three backticks, \s*, $
block_end_pattern(line) ==
    /\ StartsWithFence(line)
    /\ \A k \in 4..Len(line) : IsWhitespace(line[k])

-----------------------------------------------------------------------------
(* Cell text                                                               *)

\* current_cell_lines holds the positions in lines of the buffered lines;
\* the buffered strings are lines[k] for each position k, in order.
RECURSIVE Join(_)
Join(buf) ==
    IF buf = <<>> THEN <<>>
    ELSE lines[Head(buf)] \o Join(Tail(buf))

\* A variant of rstrip that removes one trailing newline only.
rstrip_one(s) ==
    IF s # <<>> /\ s[Len(s)] = NL THEN Chop(s) ELSE s

\* str.rstrip of the newline character: removes every trailing newline.
RECURSIVE rstrip(_)
rstrip(s) ==
    IF s # <<>> /\ s[Len(s)] = NL THEN rstrip(Chop(s)) ELSE s

\* nbf.v4.new_markdown_cell of the joined, right-stripped current_cell_lines;
\* from records the buffered positions the cell was built from.
new_markdown_cell(buf) ==
    [cell_type |-> "markdown", source |-> rstrip(Join(buf)), from |-> buf]

\* nbf.v4.new_code_cell of the joined, right-stripped current_cell_lines
new_code_cell(buf) ==
    [cell_type |-> "code", source |-> rstrip(Join(buf)), from |-> buf]

\* Finish previous markdown cell if any
FinishMarkdown ==
    IF current_cell_lines # <<>>
    THEN Append(cells, new_markdown_cell(current_cell_lines))
    ELSE cells

-----------------------------------------------------------------------------
(* The conversion                                                          *)

Init ==
    /\ lines = <<>>
    /\ i = 1
    /\ pc = "start"
    /\ printed = <<>>
    /\ output_file = "untouched"
    /\ result = "pending"
    /\ cells = <<>>
    /\ current_cell_lines = <<>>
    /\ in_code_block = FALSE
    /\ is_python_block = FALSE
    /\ warned = FALSE

\* A variant of FileNotFound that reports the error and goes on.
FileNotFound_NoReturn ==
    /\ pc = "start"
    /\ printed' = Append(printed, "not_found")
    /\ pc' = "read"
    /\ UNCHANGED <<lines, i, cells, current_cell_lines, in_code_block,
                   is_python_block, warned, output_file, result>>

\* not os.path.exists(md_filepath): report and return None
FileNotFound ==
    /\ pc = "start"
    /\ printed' = Append(printed, "not_found")
    /\ result' = "None"
    /\ pc' = "returned"
    /\ UNCHANGED <<lines, i, cells, current_cell_lines, in_code_block,
                   is_python_block, warned, output_file>>

\* os.path.exists(md_filepath): the output path is named and announced
FileFound ==
    /\ pc = "start"
    /\ printed' = Append(printed, "converting")
    /\ pc' = "read"
    /\ UNCHANGED <<lines, i, cells, current_cell_lines, in_code_block,
                   is_python_block, warned, output_file, result>>

\* open and f.readlines() succeed
ReadLines ==
    /\ pc = "read"
    /\ lines' \in readlines
    /\ pc' = "loop"
    /\ UNCHANGED driver
    /\ UNCHANGED <<i, cells, current_cell_lines, in_code_block,
                   is_python_block, warned>>

\* open or f.readlines() raises: report and return None
ReadError ==
    /\ pc = "read"
    /\ printed' = Append(printed, "read_error")
    /\ result' = "None"
    /\ pc' = "returned"
    /\ UNCHANGED <<lines, i, cells, current_cell_lines, in_code_block,
                   is_python_block, warned, output_file>>

InLoop == pc = "loop" /\ i <= Len(lines)

\* A variant of LineKind that tests the generic pattern first.
LineKind_AnyFirst(line) ==
    IF any_block_start_pattern(line) THEN "other"
    ELSE IF python_block_start_pattern(line) THEN "python"
    ELSE "text"

\* A variant of LineKind for which a fence without a tag opens no block.
LineKind_TagRequired(line) ==
    IF python_block_start_pattern(line) THEN "python"
    ELSE IF any_block_start_pattern(line) /\ ~block_end_pattern(line) THEN "other"
    ELSE "text"

\* The if / elif / else on a line read outside a block.
LineKind(line) ==
    IF python_block_start_pattern(line) THEN "python"
    ELSE IF any_block_start_pattern(line) THEN "other"
    ELSE "text"

\* not in_code_block, is_start_python
StartPythonBlock ==
    /\ InLoop
    /\ ~in_code_block
    /\ LineKind(lines[i]) = "python"
    /\ cells' = FinishMarkdown
    /\ current_cell_lines' = <<>>
    /\ in_code_block' = TRUE
    /\ is_python_block' = TRUE
    /\ i' = i + 1
    /\ UNCHANGED driver
    /\ UNCHANGED <<lines, pc, warned>>

\* A variant of StartOtherBlock that does not keep the opening fence.
StartOtherBlock_DropFence ==
    /\ InLoop
    /\ ~in_code_block
    /\ LineKind(lines[i]) = "other"
    /\ cells' = FinishMarkdown
    /\ current_cell_lines' = <<>>
    /\ in_code_block' = TRUE
    /\ is_python_block' = FALSE
    /\ i' = i + 1
    /\ UNCHANGED driver
    /\ UNCHANGED <<lines, pc, warned>>

\* not in_code_block, is_start_any
StartOtherBlock ==
    /\ InLoop
    /\ ~in_code_block
    /\ LineKind(lines[i]) = "other"
    /\ cells' = FinishMarkdown
    /\ current_cell_lines' = <<i>>
    /\ in_code_block' = TRUE
    /\ is_python_block' = FALSE
    /\ i' = i + 1
    /\ UNCHANGED driver
    /\ UNCHANGED <<lines, pc, warned>>

\* not in_code_block, no fence
ContinueMarkdown ==
    /\ InLoop
    /\ ~in_code_block
    /\ LineKind(lines[i]) = "text"
    /\ current_cell_lines' = Append(current_cell_lines, i)
    /\ i' = i + 1
    /\ UNCHANGED driver
    /\ UNCHANGED <<lines, pc, cells, in_code_block, is_python_block, warned>>

\* A variant of EndBlock that keeps the closing fence of a Python block too.
EndBlock_KeepFence ==
    /\ InLoop
    /\ in_code_block
    /\ block_end_pattern(lines[i])
    /\ cells' = IF is_python_block
                THEN Append(cells, new_code_cell(Append(current_cell_lines, i)))
                ELSE Append(cells, new_markdown_cell(Append(current_cell_lines, i)))
    /\ current_cell_lines' = <<>>
    /\ in_code_block' = FALSE
    /\ is_python_block' = FALSE
    /\ i' = i + 1
    /\ UNCHANGED driver
    /\ UNCHANGED <<lines, pc, warned>>

\* A variant of EndBlock that emits a closed Python block as a markdown cell.
EndBlock_PythonAsMarkdown ==
    /\ InLoop
    /\ in_code_block
    /\ block_end_pattern(lines[i])
    /\ cells' = IF is_python_block
                THEN Append(cells, new_markdown_cell(current_cell_lines))
                ELSE Append(cells, new_markdown_cell(Append(current_cell_lines, i)))
    /\ current_cell_lines' = <<>>
    /\ in_code_block' = FALSE
    /\ is_python_block' = FALSE
    /\ i' = i + 1
    /\ UNCHANGED driver
    /\ UNCHANGED <<lines, pc, warned>>

\* A variant of EndBlock that forgets to reset is_python_block.
EndBlock_KeepPythonFlag ==
    /\ InLoop
    /\ in_code_block
    /\ block_end_pattern(lines[i])
    /\ cells' = IF is_python_block
                THEN Append(cells, new_code_cell(current_cell_lines))
                ELSE Append(cells, new_markdown_cell(Append(current_cell_lines, i)))
    /\ current_cell_lines' = <<>>
    /\ in_code_block' = FALSE
    /\ i' = i + 1
    /\ UNCHANGED driver
    /\ UNCHANGED <<lines, pc, warned, is_python_block>>

\* A variant of EndBlock that emits a closed non-Python block as a code cell.
EndBlock_OtherAsCode ==
    /\ InLoop
    /\ in_code_block
    /\ block_end_pattern(lines[i])
    /\ cells' = IF is_python_block
                THEN Append(cells, new_code_cell(current_cell_lines))
                ELSE Append(cells, new_code_cell(Append(current_cell_lines, i)))
    /\ current_cell_lines' = <<>>
    /\ in_code_block' = FALSE
    /\ is_python_block' = FALSE
    /\ i' = i + 1
    /\ UNCHANGED driver
    /\ UNCHANGED <<lines, pc, warned>>

\* in_code_block, is_end
EndBlock ==
    /\ InLoop
    /\ in_code_block
    /\ block_end_pattern(lines[i])
    /\ cells' = IF is_python_block
                THEN Append(cells, new_code_cell(current_cell_lines))
                ELSE Append(cells, new_markdown_cell(Append(current_cell_lines, i)))
    /\ current_cell_lines' = <<>>
    /\ in_code_block' = FALSE
    /\ is_python_block' = FALSE
    /\ i' = i + 1
    /\ UNCHANGED driver
    /\ UNCHANGED <<lines, pc, warned>>

\* A variant of ContinueBlock that lets a Python fence open a nested block.
ContinueBlock_Nested ==
    /\ InLoop
    /\ in_code_block
    /\ ~block_end_pattern(lines[i])
    /\ IF python_block_start_pattern(lines[i])
       THEN /\ cells' = FinishMarkdown
            /\ current_cell_lines' = <<>>
            /\ is_python_block' = TRUE
       ELSE /\ current_cell_lines' = Append(current_cell_lines, i)
            /\ UNCHANGED <<cells, is_python_block>>
    /\ i' = i + 1
    /\ UNCHANGED driver
    /\ UNCHANGED <<lines, pc, in_code_block, warned>>

\* in_code_block, not is_end
ContinueBlock ==
    /\ InLoop
    /\ in_code_block
    /\ ~block_end_pattern(lines[i])
    /\ current_cell_lines' = Append(current_cell_lines, i)
    /\ i' = i + 1
    /\ UNCHANGED driver
    /\ UNCHANGED <<lines, pc, cells, in_code_block, is_python_block, warned>>

\* A variant of Finish that emits an unterminated block as markdown always.
Finish_AllMarkdown ==
    /\ pc = "loop"
    /\ i = Len(lines) + 1
    /\ IF current_cell_lines # <<>>
       THEN /\ cells' = Append(cells, new_markdown_cell(current_cell_lines))
            /\ warned' = (warned \/ in_code_block)
       ELSE UNCHANGED <<cells, warned>>
    /\ pc' = "done"
    /\ UNCHANGED driver
    /\ UNCHANGED <<lines, i, current_cell_lines, in_code_block, is_python_block>>

\* After the loop: add any remaining content as a final cell.
Finish ==
    /\ pc = "loop"
    /\ i = Len(lines) + 1
    /\ IF current_cell_lines # <<>> /\ ~in_code_block
       THEN /\ cells' = Append(cells, new_markdown_cell(current_cell_lines))
            /\ warned' = warned
       ELSE IF current_cell_lines # <<>> /\ in_code_block
       THEN /\ warned' = TRUE
            /\ cells' = IF is_python_block
                        THEN Append(cells, new_code_cell(current_cell_lines))
                        ELSE Append(cells, new_markdown_cell(current_cell_lines))
       ELSE UNCHANGED <<cells, warned>>
    /\ pc' = "done"
    /\ UNCHANGED driver
    /\ UNCHANGED <<lines, i, current_cell_lines, in_code_block, is_python_block>>

\* The notebook is written to the output path, which is returned.
WriteNotebook ==
    /\ pc = "done"
    /\ output_file' = "saved"
    /\ printed' = Append(printed, "saved")
    /\ result' = "path"
    /\ pc' = "returned"
    /\ UNCHANGED <<lines, i, cells, current_cell_lines, in_code_block,
                   is_python_block, warned>>

\* The write raises: at open, with the output path untouched, or in
\* nbf.write, with the output file already created and truncated by open.
WriteError ==
    /\ pc = "done"
    /\ \E opened \in BOOLEAN :
          output_file' = IF opened THEN "partial" ELSE output_file
    /\ printed' = Append(printed, "write_error")
    /\ result' = "None"
    /\ pc' = "returned"
    /\ UNCHANGED <<lines, i, cells, current_cell_lines, in_code_block,
                   is_python_block, warned>>

Next ==
    \/ FileNotFound
    \/ FileFound
    \/ ReadLines
    \/ ReadError
    \/ WriteNotebook
    \/ WriteError
    \/ StartPythonBlock
    \/ StartOtherBlock
    \/ ContinueMarkdown
    \/ EndBlock
    \/ ContinueBlock
    \/ Finish

Spec == Init /\ [][Next]_vars

-----------------------------------------------------------------------------
(* The segmentation as a function of the lines read: the loop and the      *)
(* flush after it, run on any sequence of lines. The buffer holds the      *)
(* lines themselves and a cell is its type and its text.                   *)

RECURSIVE JoinLines(_)
JoinLines(buf) ==
    IF buf = <<>> THEN <<>> ELSE Head(buf) \o JoinLines(Tail(buf))

SegCell(type, buf) == [cell_type |-> type, source |-> rstrip(JoinLines(buf))]

SegInit == [cells |-> <<>>, buf |-> <<>>, code |-> FALSE, py |-> FALSE]

\* One pass of the loop body on line.
SegStep(st, line) ==
    IF ~st.code
    THEN IF python_block_start_pattern(line)
         THEN [cells |-> IF st.buf # <<>>
                         THEN Append(st.cells, SegCell("markdown", st.buf))
                         ELSE st.cells,
               buf |-> <<>>, code |-> TRUE, py |-> TRUE]
         ELSE IF any_block_start_pattern(line)
         THEN [cells |-> IF st.buf # <<>>
                         THEN Append(st.cells, SegCell("markdown", st.buf))
                         ELSE st.cells,
               buf |-> <<line>>, code |-> TRUE, py |-> FALSE]
         ELSE [st EXCEPT !.buf = Append(st.buf, line)]
    ELSE IF block_end_pattern(line)
         THEN [cells |-> IF st.py
                         THEN Append(st.cells, SegCell("code", st.buf))
                         ELSE Append(st.cells, SegCell("markdown", Append(st.buf, line))),
               buf |-> <<>>, code |-> FALSE, py |-> FALSE]
         ELSE [st EXCEPT !.buf = Append(st.buf, line)]

\* A variant of SegFinish that emits what remains outside a block as code.
SegFinish_AllCode(st) ==
    IF st.buf # <<>> /\ ~st.code THEN Append(st.cells, SegCell("code", st.buf))
    ELSE IF st.buf # <<>> /\ st.code
    THEN IF st.py THEN Append(st.cells, SegCell("code", st.buf))
         ELSE Append(st.cells, SegCell("markdown", st.buf))
    ELSE st.cells

\* The flush after the loop.
SegFinish(st) ==
    IF st.buf # <<>> /\ ~st.code THEN Append(st.cells, SegCell("markdown", st.buf))
    ELSE IF st.buf # <<>> /\ st.code
    THEN IF st.py THEN Append(st.cells, SegCell("code", st.buf))
         ELSE Append(st.cells, SegCell("markdown", st.buf))
    ELSE st.cells

RECURSIVE SegLoop(_, _, _)
SegLoop(ls, k, st) ==
    IF k > Len(ls) THEN st ELSE SegLoop(ls, k + 1, SegStep(st, ls[k]))

\* The cells of a document given as its lines.
Segment(ls) == SegFinish(SegLoop(ls, 1, SegInit))

\* f.readlines() on a text: it is cut after each newline.
RECURSIVE SplitLinesFrom(_, _, _)
SplitLinesFrom(text, k, cur) ==
    IF k > Len(text) THEN (IF cur = <<>> THEN <<>> ELSE <<cur>>)
    ELSE IF text[k] = NL THEN <<Append(cur, NL)>> \o SplitLinesFrom(text, k + 1, <<>>)
    ELSE SplitLinesFrom(text, k + 1, Append(cur, text[k]))

SplitLines(text) == SplitLinesFrom(text, 1, <<>>)

-----------------------------------------------------------------------------
(* Vocabulary of the properties                                            *)

\* The positions lo..hi, in order.
Range(lo, hi) == [k \in 1..(hi - lo + 1) |-> lo + k - 1]

\* The segmenter's mode once the first k lines are read, by the fence
\* grammar alone: a block opens on a fence line read Outside and closes on
\* the next fence-close line.
RECURSIVE ModeAfter(_)
ModeAfter(k) ==
    IF k = 0 THEN "Outside"
    ELSE LET m == ModeAfter(k - 1)
             l == lines[k]
         IN  IF m = "Outside"
             THEN IF python_block_start_pattern(l) THEN "InPythonBlock"
                  ELSE IF any_block_start_pattern(l) THEN "InOtherBlock"
                  ELSE "Outside"
             ELSE IF block_end_pattern(l) THEN "Outside" ELSE m

\* The mode the two flags encode.
Mode ==
    IF ~in_code_block THEN "Outside"
    ELSE IF is_python_block THEN "InPythonBlock" ELSE "InOtherBlock"

\* The position of the fence line that opened the block that is open once
\* the first k lines are read.
OpenerOf(k) ==
    CHOOSE j \in 1..k :
        /\ ModeAfter(j - 1) = "Outside"
        /\ \A m \in j..k : ModeAfter(m) # "Outside"

\* The position of the last fence-close line read inside a block among the
\* first k lines, 0 if there is none: the prose pending once k lines are
\* read Outside is what follows it.
LastCloseBefore(k) ==
    LET closes == {j \in 1..k : ModeAfter(j - 1) # "Outside" /\ ModeAfter(j) = "Outside"}
    IN  IF closes = {} THEN 0 ELSE CHOOSE j \in closes : \A m \in closes : m <= j

\* The fence lines of Python blocks among the first k lines: opening fences
\* and the fences that close them.
PythonFencePositions(k) ==
    {j \in 1..k : \/ ModeAfter(j - 1) = "Outside" /\ ModeAfter(j) = "InPythonBlock"
                  \/ ModeAfter(j - 1) = "InPythonBlock" /\ ModeAfter(j) = "Outside"}

EndsWithNL(s) == s # <<>> /\ s[Len(s)] = NL

\* t is s with its trailing line terminators trimmed.
IsTrimOf(t, s) ==
    /\ ~EndsWithNL(t)
    /\ Len(t) <= Len(s)
    /\ SubSeq(s, 1, Len(t)) = t
    /\ \A k \in (Len(t) + 1)..Len(s) : s[k] = NL

LastCell == cells[Len(cells)]

\* The step reads line i.
Reading == pc = "loop" /\ i <= Len(lines)

-----------------------------------------------------------------------------
(* C1: a Python block opened Outside and closed by a fence-close line      *)
(* yields exactly one code cell at the close, built from the lines         *)
(* strictly between the two fences, trimmed; no fence line of a Python     *)
(* block is in any cell; after the close the mode is Outside and the       *)
(* buffer is empty.                                                        *)

C1_CloseStep ==
    (Reading /\ ModeAfter(i - 1) = "InPythonBlock" /\ block_end_pattern(lines[i]))
    => LET o == OpenerOf(i - 1)
           body == Range(o + 1, i - 1)
       IN  /\ python_block_start_pattern(lines[o])
           /\ Len(cells') = Len(cells) + 1
           /\ SubSeq(cells', 1, Len(cells)) = cells
           /\ cells'[Len(cells')].cell_type = "code"
           /\ cells'[Len(cells')].from = body
           /\ IsTrimOf(cells'[Len(cells')].source, Join(body))
           /\ ~in_code_block' /\ ~is_python_block'
           /\ current_cell_lines' = <<>>

C1_NoFenceInCells ==
    \A j \in PythonFencePositions(i - 1) :
        /\ \A c \in 1..Len(cells) : \A k \in 1..Len(cells[c].from) : cells[c].from[k] # j
        /\ \A k \in 1..Len(current_cell_lines) : current_cell_lines[k] # j

C1_PythonBlock == [][C1_CloseStep]_vars /\ []C1_NoFenceInCells

\* A Python block with a body, preceded by prose, has just been closed.
C1_Witness ==
    /\ i >= 4
    /\ ModeAfter(i - 2) = "InPythonBlock"
    /\ ModeAfter(i - 1) = "Outside"
    /\ cells # <<>>
    /\ LastCell.cell_type = "code"
    /\ LastCell.from # <<>>
    /\ Len(cells) >= 2

-----------------------------------------------------------------------------
(* C2: a non-Python fenced block opened Outside first flushes the pending  *)
(* prose as its own markdown cell (only when there is some), and at its    *)
(* close yields exactly one markdown cell made of the opening fence, the   *)
(* body and the closing fence, in order; no code cell; then Outside with   *)
(* an empty buffer.                                                        *)

C2_OpenStep ==
    (Reading /\ ModeAfter(i - 1) = "Outside"
       /\ any_block_start_pattern(lines[i]) /\ ~python_block_start_pattern(lines[i]))
    => LET prose == Range(LastCloseBefore(i - 1) + 1, i - 1)
       IN  /\ IF prose # <<>>
              THEN /\ Len(cells') = Len(cells) + 1
                   /\ SubSeq(cells', 1, Len(cells)) = cells
                   /\ cells'[Len(cells')].cell_type = "markdown"
                   /\ cells'[Len(cells')].from = prose
                   /\ IsTrimOf(cells'[Len(cells')].source, Join(prose))
              ELSE cells' = cells
           /\ current_cell_lines' = <<i>>
           /\ in_code_block' /\ ~is_python_block'

C2_CloseStep ==
    (Reading /\ ModeAfter(i - 1) = "InOtherBlock" /\ block_end_pattern(lines[i]))
    => LET block == Range(OpenerOf(i - 1), i)
       IN  /\ Len(cells') = Len(cells) + 1
           /\ SubSeq(cells', 1, Len(cells)) = cells
           /\ cells'[Len(cells')].cell_type = "markdown"
           /\ cells'[Len(cells')].from = block
           /\ IsTrimOf(cells'[Len(cells')].source, Join(block))
           /\ ~in_code_block' /\ ~is_python_block'
           /\ current_cell_lines' = <<>>

C2_OtherBlock == [][C2_OpenStep /\ C2_CloseStep]_vars

\* A non-Python block with a body, preceded by prose, has just been closed:
\* the prose and the block are two markdown cells.
C2_Witness ==
    /\ i = 5
    /\ ModeAfter(1) = "Outside"
    /\ ModeAfter(2) = "InOtherBlock"
    /\ ModeAfter(3) = "InOtherBlock"
    /\ ModeAfter(4) = "Outside"
    /\ Len(cells) = 2
    /\ cells[1].cell_type = "markdown" /\ cells[1].from = <<1>>
    /\ cells[2].cell_type = "markdown" /\ cells[2].from = <<2, 3, 4>>

-----------------------------------------------------------------------------
(* C3: read Outside, a line of three backticks, the token python in any    *)
(* letter case and only trailing whitespace enters InPythonBlock, never    *)
(* InOtherBlock, although it matches the generic pattern too; the fence    *)
(* line is not put in the buffer.                                          *)

\* Such lines, written out.
PythonFenceLines ==
    {PythonFence, PythonFenceUpperWs, Chop(PythonFence), Chop(PythonFenceUpperWs)}

C3_Step ==
    (Reading /\ ~in_code_block /\ lines[i] \in PythonFenceLines)
    => /\ any_block_start_pattern(lines[i])
       /\ in_code_block' /\ is_python_block'
       /\ current_cell_lines' = <<>>

C3_TieBreak == [][C3_Step]_vars

\* An upper-case Python fence with trailing whitespace, which also matches
\* the generic pattern, has just opened a Python block after some prose.
C3_Witness ==
    /\ i = 3
    /\ lines[2] = PythonFenceUpperWs
    /\ any_block_start_pattern(lines[2])
    /\ ModeAfter(1) = "Outside"
    /\ in_code_block /\ is_python_block
    /\ current_cell_lines = <<>>
    /\ Len(cells) = 1

-----------------------------------------------------------------------------
(* C4: no emitted cell has a text that ends with a line terminator.        *)

C4_NoTrailingTerminator ==
    \A c \in 1..Len(cells) : ~EndsWithNL(cells[c].source)

\* A cell was built from a buffer that ended with a blank line.
C4_Witness ==
    /\ pc = "done"
    /\ \E c \in 1..Len(cells) :
          /\ Len(cells[c].from) >= 2
          /\ lines[cells[c].from[Len(cells[c].from)]] = BlankLine
          /\ cells[c].source # <<>>

-----------------------------------------------------------------------------
(* C5: the text of a cell is the concatenation of the buffered lines with  *)
(* exactly one trailing line terminator removed if present; when the       *)
(* buffer ends in several terminators only the last one is removed.        *)

StripOneTerminator(s) == IF EndsWithNL(s) THEN SubSeq(s, 1, Len(s) - 1) ELSE s

C5_StripExactlyOne ==
    \A c \in 1..Len(cells) : cells[c].source = StripOneTerminator(Join(cells[c].from))

-----------------------------------------------------------------------------
(* C6: no cell is emitted from an empty buffer and no emitted cell has an  *)
(* empty text.                                                             *)

C6_NoEmptyCell ==
    \A c \in 1..Len(cells) : cells[c].from # <<>> /\ cells[c].source # <<>>

-----------------------------------------------------------------------------
(* C7: an input without any fence line yields exactly one markdown cell    *)
(* whose text is the whole input with its final line terminator removed;   *)
(* the empty input yields no cell.                                         *)

NoFenceLine == \A k \in 1..Len(lines) : ~any_block_start_pattern(lines[k])

C7_NoFenceInput ==
    (pc = "done" /\ NoFenceLine)
    => IF lines = <<>> THEN cells = <<>>
       ELSE /\ Len(cells) = 1
            /\ cells[1].cell_type = "markdown"
            /\ cells[1].source = StripOneTerminator(Join(Range(1, Len(lines))))

-----------------------------------------------------------------------------
(* C8: the cell texts joined with one line terminator between consecutive  *)
(* cells give back the document without the fence lines of its Python      *)
(* blocks. The terminator that ends the document is not counted: the join  *)
(* may equal the content with or without it.                               *)

RECURSIVE JoinCells(_)
JoinCells(cs) ==
    IF cs = <<>> THEN <<>>
    ELSE IF Len(cs) = 1 THEN cs[1].source
    ELSE cs[1].source \o <<NL>> \o JoinCells(Tail(cs))

\* The positions of the document that are no fence line of a Python block.
RECURSIVE KeptPositions(_)
KeptPositions(k) ==
    IF k = 0 THEN <<>>
    ELSE IF k \in PythonFencePositions(Len(lines)) THEN KeptPositions(k - 1)
    ELSE Append(KeptPositions(k - 1), k)

Content == Join(KeptPositions(Len(lines)))

C8_Reconstruction ==
    pc = "done" => JoinCells(cells) \in {Content, StripOneTerminator(Content)}

-----------------------------------------------------------------------------
(* C9: when the input ends inside a block and the buffer is not empty, the *)
(* buffer becomes the last cell: a code cell for a Python block, a         *)
(* markdown cell that starts with the opening fence for another block; the *)
(* conversion completes and the earlier cells are unchanged.               *)

C9_FinishStep ==
    (pc = "loop" /\ i = Len(lines) + 1 /\ ModeAfter(Len(lines)) # "Outside"
       /\ current_cell_lines # <<>>)
    => LET n == Len(lines)
           o == OpenerOf(n)
           python == ModeAfter(n) = "InPythonBlock"
           block == IF python THEN Range(o + 1, n) ELSE Range(o, n)
       IN  /\ pc' = "done"
           /\ Len(cells') = Len(cells) + 1
           /\ SubSeq(cells', 1, Len(cells)) = cells
           /\ cells'[Len(cells')].cell_type = IF python THEN "code" ELSE "markdown"
           /\ cells'[Len(cells')].from = block
           /\ IsTrimOf(cells'[Len(cells')].source, Join(block))

C9_UnterminatedBlock == [][C9_FinishStep]_vars

\* The input ended inside a Python block with a body, after an earlier cell.
C9_Witness ==
    /\ pc = "done"
    /\ ModeAfter(Len(lines)) = "InPythonBlock"
    /\ Len(cells) >= 2
    /\ LastCell.cell_type = "code"
    /\ LastCell.source # <<>>

-----------------------------------------------------------------------------
(* C10: whenever the input ends while a block is open, a warning is        *)
(* surfaced, also when the last line is the Python fence open itself.      *)

C10_WarnWhenOpen ==
    (pc = "done" /\ ModeAfter(Len(lines)) # "Outside") => warned

-----------------------------------------------------------------------------
(* C11: the emitted cells alternate between prose and code: no two         *)
(* consecutive cells have the same type.                                   *)

C11_Alternation ==
    \A k \in 1..(Len(cells) - 1) : cells[k].cell_type # cells[k + 1].cell_type

\* C11 as amended: two consecutive cells have the same type only at the
\* boundary of a fenced block. Of two consecutive markdown cells at least one
\* is a non-Python fenced block (it starts with its opening fence line), so
\* two prose cells are never consecutive; and a code cell follows a code cell
\* only when the opening fence of its Python block comes right after the
\* closing fence of the previous Python block.

\* The cell is a fenced block kept as markdown: it starts with a fence line.
IsFencedMarkdown(c) ==
    /\ c.cell_type = "markdown"
    /\ c.from # <<>>
    /\ any_block_start_pattern(lines[c.from[1]])
    /\ ~python_block_start_pattern(lines[c.from[1]])

C11_MarkdownPairs ==
    \A k \in 1..(Len(cells) - 1) :
        (cells[k].cell_type = "markdown" /\ cells[k + 1].cell_type = "markdown")
        => (IsFencedMarkdown(cells[k]) \/ IsFencedMarkdown(cells[k + 1]))

C11_CodeAfterCode ==
    (/\ pc = "loop"
     /\ Len(cells') = Len(cells) + 1
     /\ cells'[Len(cells')].cell_type = "code"
     /\ cells # <<>>
     /\ LastCell.cell_type = "code")
    => LET o == OpenerOf(i - 1)
       IN  /\ ModeAfter(i - 1) = "InPythonBlock"
           /\ o >= 2
           /\ ModeAfter(o - 2) = "InPythonBlock"
           /\ ModeAfter(o - 1) = "Outside"

C11_SameTypeOnlyAtFences == [][C11_CodeAfterCode]_vars /\ []C11_MarkdownPairs

\* Prose followed by a non-Python fenced block: two markdown cells in a row.
C11_Witness ==
    /\ Len(cells) >= 2
    /\ cells[1].cell_type = "markdown" /\ ~IsFencedMarkdown(cells[1])
    /\ IsFencedMarkdown(cells[2])

-----------------------------------------------------------------------------
(* C12: the conversion writes exactly one output file and returns its path *)
(* on success; on every failure (source not found, read error, write       *)
(* error) it returns the failure indicator and has written nothing to the  *)
(* output path; when the source is not found it stops before reading or    *)
(* segmenting anything.                                                    *)

Printed(m) == \E k \in 1..Len(printed) : printed[k] = m

\* Nothing was read or segmented.
NothingProcessed ==
    /\ lines = <<>> /\ i = 1 /\ cells = <<>> /\ current_cell_lines = <<>>
    /\ ~Printed("converting")

C12_NothingWrittenOnFailure ==
    pc = "returned"
    => /\ result \in {"path", "None"}
       /\ result = "path" => output_file = "saved"
       /\ result = "None" => output_file = "untouched"
       /\ Printed("not_found") => (result = "None" /\ NothingProcessed)

\* C12 as amended: on success the output file is written and its path
\* returned; when the source is not found or cannot be read, the failure
\* indicator is returned and nothing is written; when the write fails the
\* failure indicator is returned, but the output file may already have been
\* created or partly written; not found stops before reading or segmenting.
C12_DriverContract ==
    pc = "returned"
    => /\ result \in {"path", "None"}
       /\ result = "path" <=> output_file = "saved"
       /\ result = "path" <=> Printed("saved")
       /\ result = "None" <=>
             (Printed("not_found") \/ Printed("read_error") \/ Printed("write_error"))
       /\ (Printed("not_found") \/ Printed("read_error")) => output_file = "untouched"
       /\ Printed("write_error") => output_file \in {"untouched", "partial"}
       /\ Printed("not_found") => NothingProcessed

\* The source could not be read: failure returned, nothing written.
C12_Witness ==
    /\ pc = "returned"
    /\ Printed("read_error")
    /\ result = "None"
    /\ output_file = "untouched"

-----------------------------------------------------------------------------
(* C13: segmentation is lossy: for an input whose cells include a code     *)
(* cell, segmenting the reconstructed document (the cell texts joined by   *)
(* one line terminator) again does not give back the same cells.           *)

\* The cells as type and text.
PlainCells == [k \in 1..Len(cells) |-> [cell_type |-> cells[k].cell_type,
                                         source |-> cells[k].source]]

HasCodeCell == \E k \in 1..Len(cells) : cells[k].cell_type = "code"

\* The function agrees with the run on the lines read.
SegmentMatchesRun == pc = "done" => Segment(lines) = PlainCells

Resegmented == Segment(SplitLines(JoinCells(cells)))

C13_LossyRoundTrip ==
    (pc = "done" /\ HasCodeCell) => Resegmented # PlainCells

\* Prose and a Python block with a body: a markdown and a code cell, and the
\* reconstructed document segments into a single markdown cell.
C13_Witness ==
    /\ pc = "done"
    /\ Len(cells) = 2
    /\ cells[1].cell_type = "markdown" /\ cells[1].source # <<>>
    /\ cells[2].cell_type = "code" /\ cells[2].source # <<>>
    /\ Len(Resegmented) = 1
    /\ Resegmented[1].cell_type = "markdown"

-----------------------------------------------------------------------------
(* C14: no nesting. Inside a block only a fence close (three backticks and *)
(* only trailing whitespace) changes the mode; any other line, a Python    *)
(* fence open included, is appended to the buffer, emits no cell and       *)
(* leaves the mode unchanged; after an unmatched generic fence open all    *)
(* remaining lines end up in one markdown cell.                            *)

\* The lines of three backticks and only trailing whitespace, written out.
BareFenceLines == {BareFence, BareFenceWs, Chop(BareFence), Chop(BareFenceWs)}

C14_InBlockStep ==
    (Reading /\ in_code_block /\ lines[i] \notin BareFenceLines)
    => /\ current_cell_lines' = Append(current_cell_lines, i)
       /\ cells' = cells
       /\ in_code_block' = in_code_block
       /\ is_python_block' = is_python_block

C14_ModeChange ==
    (Reading /\ in_code_block
       /\ (in_code_block' # in_code_block \/ is_python_block' # is_python_block))
    => lines[i] \in BareFenceLines

C14_Unmatched ==
    pc = "done"
    => \A j \in 1..Len(lines) :
          (/\ ModeAfter(j - 1) = "Outside"
           /\ any_block_start_pattern(lines[j])
           /\ ~python_block_start_pattern(lines[j])
           /\ \A k \in (j + 1)..Len(lines) : lines[k] \notin BareFenceLines)
          => /\ cells # <<>>
             /\ LastCell.cell_type = "markdown"
             /\ LastCell.from = Range(j, Len(lines))

C14_NoNesting == [][C14_InBlockStep /\ C14_ModeChange]_vars /\ []C14_Unmatched

\* The input ended in a non-Python block that was never closed and that holds
\* a Python fence line as content: one markdown cell from the opener on.
C14_Witness ==
    /\ pc = "done"
    /\ Len(lines) >= 3
    /\ ModeAfter(1) = "InOtherBlock"
    /\ ModeAfter(Len(lines)) = "InOtherBlock"
    /\ \E k \in 2..Len(lines) : lines[k] = PythonFence
    /\ \A k \in 2..Len(lines) : lines[k] \notin BareFenceLines
    /\ Len(cells) = 1
    /\ LastCell.from = Range(1, Len(lines))

-----------------------------------------------------------------------------
(* C15: a bare fence line (three backticks and only trailing whitespace)   *)
(* is read by mode. Outside it is a generic fence open: pending prose is   *)
(* flushed, the line starts the new buffer and the mode is InOtherBlock.   *)
(* Inside a block it is a fence close. So bare fences met Outside open and *)
(* close blocks in strict alternation, and the text between such a pair is *)
(* one markdown cell that includes both fence lines.                       *)

C15_BareFenceStep ==
    (Reading /\ lines[i] \in BareFenceLines)
    => IF ~in_code_block
       THEN /\ IF current_cell_lines # <<>>
               THEN /\ Len(cells') = Len(cells) + 1
                    /\ SubSeq(cells', 1, Len(cells)) = cells
                    /\ cells'[Len(cells')].cell_type = "markdown"
                    /\ cells'[Len(cells')].from = current_cell_lines
               ELSE cells' = cells
            /\ current_cell_lines' = <<i>>
            /\ in_code_block' /\ ~is_python_block'
       ELSE /\ ~in_code_block' /\ ~is_python_block'
            /\ current_cell_lines' = <<>>
            /\ Len(cells') = Len(cells) + 1
            /\ SubSeq(cells', 1, Len(cells)) = cells

\* A bare fence closes a block that a bare fence opened.
C15_PairStep ==
    (/\ Reading /\ lines[i] \in BareFenceLines
     /\ ModeAfter(i - 1) = "InOtherBlock"
     /\ lines[OpenerOf(i - 1)] \in BareFenceLines)
    => LET block == Range(OpenerOf(i - 1), i)
       IN  /\ cells'[Len(cells')].cell_type = "markdown"
           /\ cells'[Len(cells')].from = block
           /\ IsTrimOf(cells'[Len(cells')].source, Join(block))

\* Among the lines read, the bare fence lines.
BareFencesRead == {j \in 1..(i - 1) : lines[j] \in BareFenceLines}

\* When every fence line read so far is bare, a block is open exactly after
\* an odd number of them, and it is never a Python block.
C15_Alternation ==
    (\A j \in 1..(i - 1) : any_block_start_pattern(lines[j]) => lines[j] \in BareFenceLines)
    => /\ in_code_block <=> (Cardinality(BareFencesRead) % 2 = 1)
       /\ ~is_python_block

C15_BareFenceByMode ==
    [][C15_BareFenceStep /\ C15_PairStep]_vars /\ []C15_Alternation

\* A bare fence, a prose line and a bare fence were read: one markdown cell
\* made of the three lines, and the mode is Outside again.
C15_Witness ==
    /\ i = 4
    /\ lines[1] \in BareFenceLines
    /\ lines[2] = ProseLine
    /\ lines[3] \in BareFenceLines
    /\ ~in_code_block
    /\ Len(cells) = 1
    /\ cells[1].cell_type = "markdown"
    /\ cells[1].from = <<1, 2, 3>>

-----------------------------------------------------------------------------
(* C16: in every reachable state is_python_block implies in_code_block, so *)
(* the two flags encode the three modes Outside, InPythonBlock and         *)
(* InOtherBlock and never the fourth combination; and in InOtherBlock the  *)
(* buffer is not empty and its first element is the opening fence line.    *)

C16_StateInvariant ==
    /\ is_python_block => in_code_block
    /\ Mode = ModeAfter(i - 1)
    /\ Mode = "InOtherBlock"
       => /\ current_cell_lines # <<>>
          /\ current_cell_lines[1] = OpenerOf(i - 1)
          /\ any_block_start_pattern(lines[current_cell_lines[1]])
          /\ ~python_block_start_pattern(lines[current_cell_lines[1]])

\* Inside a non-Python block, after its opener and one more line were read.
C16_Witness ==
    /\ pc = "loop"
    /\ Mode = "InOtherBlock"
    /\ Len(current_cell_lines) >= 2
    /\ current_cell_lines[1] >= 2

-----------------------------------------------------------------------------
(* C17: prose never becomes code. Every line of a code cell was read in    *)
(* InPythonBlock; every line read Outside or in InOtherBlock, other than   *)
(* the Python fence-open lines, which are in no cell, is in markdown cells *)
(* only; and there are no more code cells than Python fence-open lines     *)
(* read Outside.                                                           *)

\* The positions a cell was built from.
PositionsOf(c) == {c.from[k] : k \in 1..Len(c.from)}

\* The Python fence-open lines read Outside so far.
PythonOpensRead ==
    {j \in 1..(i - 1) : ModeAfter(j - 1) = "Outside" /\ python_block_start_pattern(lines[j])}

CodeCells == {k \in 1..Len(cells) : cells[k].cell_type = "code"}

C17_ProseNeverCode ==
    /\ \A k \in CodeCells : \A j \in PositionsOf(cells[k]) :
          ModeAfter(j - 1) = "InPythonBlock"
    /\ \A k \in 1..Len(cells) : \A j \in PositionsOf(cells[k]) :
          ModeAfter(j - 1) \in {"Outside", "InOtherBlock"}
          => /\ cells[k].cell_type = "markdown"
             /\ ~(ModeAfter(j - 1) = "Outside" /\ python_block_start_pattern(lines[j]))
    /\ Cardinality(CodeCells) <= Cardinality(PythonOpensRead)

\* A Python block with a body and a line read outside it were both emitted.
C17_Witness ==
    /\ pc = "done"
    /\ \E k \in CodeCells : cells[k].from # <<>>
    /\ \E k \in 1..Len(cells) :
          /\ cells[k].cell_type = "markdown"
          /\ \E j \in PositionsOf(cells[k]) : ModeAfter(j - 1) = "Outside"

====
